---- MODULE Spec2Model ----
(***************************************************************************)
(* Model of compilador_banco (src/src/main.rs): an incremental LaTeX to    *)
(* HTML build driver.  One run of main is a sequence of steps (pc); the    *)
(* environment (clock, other processes touching or deleting files) moves   *)
(* between the steps.  Time is counted in ticks, TicksPerSec ticks to the  *)
(* second, so that a modification time carries a sub-second part while the *)
(* ledger stores whole seconds, as in the code.                            *)
(***************************************************************************)
EXTENDS Integers, Sequences, FiniteSets, TLC

\* ------------------------------------------------------------------ bounds
\* resolution of the clock and of modification times: ticks per second
TicksPerSec == 2
\* the clock starts one second after the epoch and advances at most MaxTicks
MaxTicks == 1
\* a file's first modification time may lie this many ticks before the epoch
PreEpoch == 1
\* removals of paths by other processes in one behaviour
MaxDelete == 1

\* --------------------------------------------------------- the file system
\* cwd.join(args[0]): the source root (main.rs line 49)
src_dir == <<"w">>
\* the three path spellings find_tex can return; "l.1" is a symlink to "d"
PathA == <<"w", "a.tex">>
PathB == <<"w", "d", "b.c.tex">>
PathL == <<"w", "l.1", "b.c.tex">>
Paths == {PathA, PathB, PathL}

\* the symlinked directory and its target
LinkDir == <<"w", "l.1">>
LinkTarget == <<"w", "d">>

\* Path::canonicalize: the absolute path with the symlinks resolved
canonicalize(p) ==
    IF Len(p) >= Len(LinkDir) /\ SubSeq(p, 1, Len(LinkDir)) = LinkDir
    THEN LinkTarget \o SubSeq(p, Len(LinkDir) + 1, Len(p))
    ELSE p

\* the physical files: one per canonical path
PhysFiles == {canonicalize(p) : p \in Paths}

\* ------------------------------------------------- names and directories
\* OsStr::to_str: the characters of the entry names of the modelled tree
Chars ==
    ("w" :> <<"w">>) @@ ("d" :> <<"d">>) @@ ("e" :> <<"e">>) @@
    ("html" :> <<"h", "t", "m", "l">>) @@
    ("l.1" :> <<"l", ".", "1">>) @@
    ("t.tex" :> <<"t", ".", "t", "e", "x">>) @@
    ("a.tex" :> <<"a", ".", "t", "e", "x">>) @@
    ("b.c.tex" :> <<"b", ".", "c", ".", "t", "e", "x">>) @@
    ("c.tex" :> <<"c", ".", "t", "e", "x">>) @@
    ("k.tex" :> <<"k", ".", "t", "e", "x">>) @@
    (".tex" :> <<".", "t", "e", "x">>) @@
    ("x.TEX" :> <<"x", ".", "T", "E", "X">>) @@
    ("notes.txt" :> <<"n", "o", "t", "e", "s", ".", "t", "x", "t">>) @@
    ("a;b.tex" :> <<"a", ";", "b", ".", "t", "e", "x">>) @@
    ("n\nb.tex" :> <<"n", "\n", "b", ".", "t", "e", "x">>)

\* the positions of character c in the string s
Positions(s, c) == {i \in 1..Len(s) : s[i] = c}
Last(S) == CHOOSE i \in S : \A j \in S : j <= i
First(S) == CHOOSE i \in S : \A j \in S : i <= j

\* what follows the first '.' of a file name
after_first_dot(name) ==
    LET s == Chars[name]
        dots == Positions(s, ".")
    IN IF dots = {} THEN <<>> ELSE SubSeq(s, First(dots) + 1, Len(s))

\* Path::extension of a file name: nothing when the name has no '.', or
\* begins with its only '.'; otherwise what follows the last '.'
extension(name) ==
    LET s == Chars[name]
        dots == Positions(s, ".")
    IN IF dots = {} \/ Last(dots) = 1 THEN <<>>
       ELSE SubSeq(s, Last(dots) + 1, Len(s))

\* the directories of the tree and, for each, its entries in read_dir order
DirList ==
    (<<"w">> :> <<"a.tex", "notes.txt", "x.TEX", ".tex", "d", "l.1", "t.tex">>) @@
    (<<"w", "d">> :> <<"b.c.tex", "e">>) @@
    (<<"w", "d", "e">> :> <<"c.tex">>) @@
    (<<"w", "t.tex">> :> <<"k.tex">>)
Dirs == DOMAIN DirList

\* the entries that are not .tex files: they exist in every state of a run
OtherFiles == {<<"w", "notes.txt">>, <<"w", "x.TEX">>}

\* A view of the file system is a record: entries, the path spellings that
\* resolve to an existing file or directory; unreadable, the directories
\* read_dir fails on.  Path::is_dir and Path::is_file follow symlinks.
is_dir(p, fs) == p \in fs.entries /\ canonicalize(p) \in Dirs
is_file(p, fs) == p \in fs.entries /\ canonicalize(p) \notin Dirs

\* read_dir(base): the names of the entries of base that exist
read_dir(base, fs) ==
    SelectSeq(DirList[canonicalize(base)],
              LAMBDA n : (base \o <<n>>) \in fs.entries)

\* main.rs lines 176-202: find_tex(base), and its loop over the items
RECURSIVE find_tex_in(_, _)
RECURSIVE find_tex_items(_, _, _)
find_tex_in(base, fs) ==
    IF ~is_dir(base, fs) THEN <<>>
    ELSE IF canonicalize(base) \in fs.unreadable THEN <<>>
    ELSE find_tex_items(base, read_dir(base, fs), fs)

find_tex_items(base, names, fs) ==
    IF names = <<>> THEN <<>>
    ELSE LET item == base \o <<Head(names)>>
         IN (IF is_file(item, fs) /\ extension(Head(names)) = <<"t", "e", "x">>
             THEN <<item>>
             ELSE IF is_dir(item, fs) THEN find_tex_in(item, fs)
             ELSE <<>>)
            \o find_tex_items(base, Tail(names), fs)

\* ------------------------------------------------------- the output path
\* main.rs lines 35-37: html_dir = src_dir.join("html")
html_dir == src_dir \o <<"html">>

\* Path::strip_prefix(base) of a path that starts with base
strip_prefix(p, base) == SubSeq(p, Len(base) + 1, Len(p))

\* Path::to_str: the components, each after a '/'
RECURSIVE to_str(_)
to_str(p) ==
    IF p = <<>> THEN <<>> ELSE <<"/">> \o Chars[Head(p)] \o to_str(Tail(p))

\* str::rsplit_once(c): what precedes and what follows the last c
rsplit_once(s, c) ==
    LET i == Last(Positions(s, c))
    IN <<SubSeq(s, 1, i - 1), SubSeq(s, i + 1, Len(s))>>

HtmlExt == <<".", "h", "t", "m", "l">>

\* an output path that keeps the file name only
flat_output(p) ==
    rsplit_once(to_str(html_dir \o <<p[Len(p)]>>), ".")[1] \o HtmlExt

\* main.rs lines 121-129: the argument after "-o"
output_arg(p) ==
    rsplit_once(to_str(html_dir \o strip_prefix(p, src_dir)), ".")[1]
        \o HtmlExt

\* main.rs lines 96-100: the directory create_dir_all is given
output_parent(p) ==
    LET out == html_dir \o strip_prefix(p, src_dir)
    IN SubSeq(out, 1, Len(out) - 1)

\* ------------------------------------------------------------- timestamps
Digit == <<"0", "1", "2", "3", "4", "5", "6", "7", "8", "9">>

RECURSIVE DigitsOf(_)
DigitsOf(n) ==
    IF n < 10 THEN <<Digit[n + 1]>>
    ELSE DigitsOf(n \div 10) \o <<Digit[(n % 10) + 1]>>

\* i64::to_string of Utc::now().timestamp() (main.rs line 168)
to_string(n) == IF n < 0 THEN <<"-">> \o DigitsOf(-n) ELSE DigitsOf(n)

IsDigits(s) == Len(s) > 0 /\ \A i \in 1..Len(s) : \E d \in 1..10 : Digit[d] = s[i]

DigitVal(c) == (CHOOSE d \in 1..10 : Digit[d] = c) - 1

RECURSIVE NatOf(_)
NatOf(s) ==
    IF Len(s) = 1 THEN DigitVal(s[1])
    ELSE 10 * NatOf(SubSeq(s, 1, Len(s) - 1)) + DigitVal(s[Len(s)])

\* NaiveDateTime::parse_from_str(s, "%s"): a signed decimal number of seconds
parse_ok(s) ==
    \/ IsDigits(s)
    \/ Len(s) > 1 /\ s[1] \in {"-", "+"} /\ IsDigits(Tail(s))

parse_from_str(s) ==
    IF s[1] = "-" THEN 0 - NatOf(Tail(s))
    ELSE IF s[1] = "+" THEN NatOf(Tail(s))
    ELSE NatOf(s)

\* Utc::now().timestamp(): the whole seconds of a time in ticks
timestamp(t) == t \div TicksPerSec

\* ------------------------------------------------ the ledger (a HashMap)
\* a map is a set of <<key, value>> pairs with distinct keys
Keys(m) == {e[1] : e \in m}

\* HashMap::get(k).unwrap_or("0") (main.rs lines 73-75)
get_or_zero(m, k) ==
    IF k \in Keys(m) THEN (CHOOSE e \in m : e[1] = k)[2] ELSE <<"0">>

\* HashMap::insert
insert(m, k, v) == {e \in m : e[1] # k} \cup {<<k, v>>}

\* the key a call site that forgets to canonicalize would use
raw_key(p) == p

\* path.canonicalize().unwrap().to_str().unwrap(): the key of a path, at the
\* lookup (main.rs line 74) and at the insertion (line 167)
ledger_key(p) == canonicalize(p)

\* an insertion that records the clock reading without cutting it to seconds
inserted_ticks(m, p, now) == insert(m, ledger_key(p), to_string(now))

\* main.rs lines 166-169: times.insert(key, Utc::now().timestamp().to_string())
inserted(m, p, now) == insert(m, ledger_key(p), to_string(timestamp(now)))

\* a load that starts every run from an empty ledger
empty_map(file) == {}

\* main.rs lines 220-225: the map get_times builds from the file's lines
loaded_map(file) == file.entries

\* --------------------------------------------------------------- the state
VARIABLES
    clock,       \* the last reading of the wall clock, in ticks since the epoch
    mtime,       \* physical file -> modification time, in ticks
    present,     \* the path spellings that resolve to an existing file
    htmlExists,  \* whether src_dir/html exists
    ledgerFile,  \* src_dir/.compilador_banco
    pc,          \* position of main
    exitCode,    \* the exit code of the last run (NoExit while running)
    times,       \* main's `times`: the in-memory ledger
    files,       \* the scanned files the for loop has not taken yet
    path,        \* the for loop's current `path`
    \* observations of the behaviour, read by the properties only
    scanned,     \* what find_tex returned in this run
    class,       \* path -> how this run classified it
    invoked,     \* converter invocations in this run
    failures,    \* the failures met in this run
    keysUsed,    \* the ledger keys this run looked up or inserted
    updated,     \* the paths whose ledger entry this run set
    ev,          \* the last staleness evaluation, until the next file
    upd,         \* the last ledger update, until the next file
    touched,     \* file -> touched since its ledger entry was recorded
    conv,        \* file -> "ok": converted successfully and not modified since
    quiet,       \* clean runs completed since the last file-system change
    priorFile,   \* the ledger entries this run loaded
    saved,       \* this run wrote the ledger file
    deletes,     \* number of Delete steps so far
    outDirs,     \* the directories this run made sure exist (create_dir_all)
    outFiles,    \* the output files on disk that this run's conversions wrote
    calls,       \* the converter invocations of this run, in order
    procs,       \* the converter subprocesses of this run still running
    atStart,     \* the ledger file and the html directory when the run began
    writes,      \* how many times this run wrote the ledger file
    loaded,      \* this run called get_times
    raced,       \* file -> modified between the start of a successful
                 \* conversion and the update of its entry, and not since
    \* the functions find_tex, get_times and save_times taken on their own
    stage,       \* which of them has been applied ("none" inside a run)
    fsys,        \* find_tex: the file system it is applied to
    matches,     \* find_tex: the vector it returned
    rtMap,       \* save_times: the map it is given
    rtText,      \* the contents of .compilador_banco it wrote
    rtBack       \* get_times: the map it returned for those contents

env == <<clock, mtime, present, htmlExists, ledgerFile>>
prog == <<pc, exitCode, times, files, path>>
obs == <<scanned, class, invoked, failures, keysUsed, updated, ev, upd,
         touched, conv, quiet, priorFile, saved, deletes>>
more == <<outDirs, outFiles, calls, procs, atStart, writes, loaded, raced>>
pure == <<stage, fsys, matches, rtMap, rtText, rtBack>>
vars == <<env, prog, obs, more, pure>>

NoPath == <<>>
NoExit == 0 - 1
NoEval == [key |-> NoPath, had |-> FALSE, rec |-> 0, m |-> 0,
           touched |-> FALSE, conv |-> "no", stale |-> FALSE,
           raced |-> FALSE]
NoUpdate == [key |-> NoPath, now |-> 0, before |-> {}]
\* the exit code of a Rust process whose main thread panicked
PanicCode == 101

NoLedger == [exists |-> FALSE, garbage |-> FALSE, entries |-> {}]
\* a ledger file holding a line without the ';' delimiter
GarbageLedger == [exists |-> TRUE, garbage |-> TRUE, entries |-> {}]

\* the clock starts one second after the epoch
Clock0 == TicksPerSec
MaxClock == Clock0 + MaxTicks
Running == pc \notin {"idle", "exited"}

\* the file system as a run of main finds it: the .tex files present, the
\* other files and the directories, every directory readable
Disk ==
    [entries |-> present \cup OtherFiles \cup {src_dir, LinkDir, LinkTarget},
     unreadable |-> {}]

\* no function is being looked at on its own
NoPure ==
    /\ stage = "none"
    /\ fsys = [entries |-> {}, unreadable |-> {}]
    /\ matches = <<>>
    /\ rtMap = {}
    /\ rtText = <<>>
    /\ rtBack = {}

\* the state before the first run: PathA is dated at or before the epoch,
\* PathB shortly after it
InitRun ==
    /\ clock = Clock0
    /\ mtime \in {[f \in PhysFiles |-> IF f = PathA THEN t ELSE 1] :
                    t \in (0 - PreEpoch)..0}
    /\ present = Paths
    /\ htmlExists = FALSE
    /\ ledgerFile \in {NoLedger, GarbageLedger}
    /\ pc = "idle"
    /\ exitCode = NoExit
    /\ times = {}
    /\ files = <<>>
    /\ path = NoPath
    /\ scanned = {}
    /\ class = [p \in Paths |-> "none"]
    /\ invoked = 0
    /\ failures = {}
    /\ keysUsed = {}
    /\ updated = {}
    /\ ev = NoEval
    /\ upd = NoUpdate
    /\ touched = [f \in PhysFiles |-> FALSE]
    /\ conv = [f \in PhysFiles |-> "no"]
    /\ quiet = 0
    /\ priorFile = {}
    /\ saved = FALSE
    /\ deletes = 0
    /\ outDirs = {}
    /\ outFiles = {}
    /\ calls = <<>>
    /\ procs = {}
    /\ atStart = [ledger |-> ledgerFile, html |-> htmlExists]
    /\ writes = 0
    /\ loaded = FALSE
    /\ raced = [f \in PhysFiles |-> "no"]

Init == InitRun /\ NoPure

\* ------------------------------------------------------- the environment
\* The wall clock is read by InsertTime (Utc::now) and by whoever writes a
\* file; the time that passed since the last reading shows at the next one.

\* a change of the file system ends the quiet runs
Disturbed == IF Running THEN 0 - 1 ELSE 0

\* the ledger has an entry for key k, on disk or set in this run's memory
Recorded(k) ==
    \/ k \in Keys(ledgerFile.entries)
    \/ Running /\ \E q \in updated : canonicalize(q) = k

\* another process writes file f: its modification time advances to now
Touch(f) ==
    /\ f \in present
    /\ \E now \in clock..MaxClock :
         /\ mtime[f] < now
         /\ clock' = now
         /\ mtime' = [mtime EXCEPT ![f] = now]
    /\ touched' = [touched EXCEPT ![f] = Recorded(f)]
    /\ conv' = [conv EXCEPT ![f] = "no"]
    /\ quiet' = Disturbed
    /\ UNCHANGED <<present, htmlExists, ledgerFile, prog>>
    /\ UNCHANGED <<scanned, class, invoked, failures, keysUsed, updated,
                   ev, upd, priorFile, saved, deletes>>
    /\ raced' = [raced EXCEPT ![f] = "no"]
    /\ UNCHANGED <<outDirs, outFiles, calls, procs, atStart, writes, loaded>>
    /\ UNCHANGED pure

\* another process removes path p: a file, with every spelling of it, or the
\* symlinked spelling alone
Delete(p) ==
    /\ deletes < MaxDelete
    /\ p \in present
    /\ present' = IF canonicalize(p) = p
                  THEN {q \in present : canonicalize(q) # p}
                  ELSE present \ {p}
    /\ deletes' = deletes + 1
    /\ quiet' = Disturbed
    /\ UNCHANGED <<clock, mtime, htmlExists, ledgerFile, prog>>
    /\ UNCHANGED <<scanned, class, invoked, failures, keysUsed, updated,
                   ev, upd, touched, conv, priorFile, saved>>
    /\ UNCHANGED <<outDirs, outFiles, calls, procs, atStart, writes, loaded, raced>>
    /\ UNCHANGED pure

\* ------------------------------------------------------------ the program
\* the process ends: exit(code), a panic, or the end of main
Exit(code, why) ==
    /\ pc' = "exited"
    /\ exitCode' = code
    /\ failures' = failures \cup why
    /\ quiet' = IF code = 0 /\ failures' = {}
                THEN (IF quiet < 2 THEN quiet + 1 ELSE quiet)
                ELSE 0

\* the program is started (again)
Start ==
    /\ ~Running
    /\ pc' = "which"
    /\ exitCode' = NoExit
    /\ times' = {}
    /\ files' = <<>>
    /\ path' = NoPath
    /\ scanned' = {}
    /\ class' = [p \in Paths |-> "none"]
    /\ invoked' = 0
    /\ failures' = {}
    /\ keysUsed' = {}
    /\ updated' = {}
    /\ ev' = NoEval
    /\ upd' = NoUpdate
    /\ priorFile' = {}
    /\ saved' = FALSE
    /\ UNCHANGED <<env, touched, conv, quiet, deletes>>
    /\ outDirs' = {}
    /\ outFiles' = {}
    /\ calls' = <<>>
    /\ procs' = {}
    /\ atStart' = [ledger |-> ledgerFile, html |-> htmlExists]
    /\ writes' = 0
    /\ loaded' = FALSE
    /\ raced' = [f \in PhysFiles |-> IF raced[f] = "now" THEN "prev" ELSE "no"]
    /\ UNCHANGED pure

\* a startup step whose failure is reported and passed over
goes_on(step, ok) == step

\* main.rs lines 20-27 and 38-47: where main is after a startup step: at the
\* next step when it succeeded, out by exit(1) when it failed
after_startup(step, ok) == IF ok THEN step ELSE "exited"

\* main.rs lines 20-27: which("pandoc")
WhichPandoc ==
    /\ pc = "which"
    /\ \E found \in BOOLEAN :
         IF after_startup("mkdir", found) = "exited"
         THEN Exit(1, {"which"})
         ELSE /\ pc' = "mkdir"
              /\ failures' = failures \cup (IF found THEN {} ELSE {"which"})
              /\ UNCHANGED <<exitCode, quiet>>
    /\ UNCHANGED <<env, times, files, path>>
    /\ UNCHANGED <<scanned, class, invoked, keysUsed, updated, ev, upd,
                   touched, conv, priorFile, saved, deletes>>
    /\ UNCHANGED <<outDirs, outFiles, calls, procs, atStart, writes, loaded, raced>>
    /\ UNCHANGED pure

\* main.rs lines 35-47: create src_dir/html unless it exists
CreateHtmlDir ==
    /\ pc = "mkdir"
    /\ IF htmlExists
       THEN /\ pc' = "load"
            /\ UNCHANGED <<htmlExists, exitCode, failures, quiet>>
       ELSE \E created \in BOOLEAN :
              /\ htmlExists' = created
              /\ IF after_startup("load", created) = "exited"
                 THEN Exit(1, {"create_dir"})
                 ELSE /\ pc' = "load"
                      /\ failures' = failures \cup
                             (IF created THEN {} ELSE {"create_dir"})
                      /\ UNCHANGED <<exitCode, quiet>>
    /\ UNCHANGED <<clock, mtime, present, ledgerFile, times, files, path>>
    /\ UNCHANGED <<scanned, class, invoked, keysUsed, updated, ev, upd,
                   touched, conv, priorFile, saved, deletes>>
    /\ UNCHANGED <<outDirs, outFiles, calls, procs, atStart, writes, loaded, raced>>
    /\ UNCHANGED pure

\* main.rs lines 204-226: get_times.  A file that cannot be read gives the
\* empty map; a line without ';' panics in split_once(";").unwrap()
get_times ==
    /\ pc = "load"
    /\ \E readable \in BOOLEAN :
         IF ~(ledgerFile.exists /\ readable)
         THEN /\ times' = {}
              /\ pc' = "scan"
              /\ failures' = failures \cup
                               (IF ledgerFile.exists THEN {"read"} ELSE {})
              /\ UNCHANGED <<exitCode, quiet>>
         ELSE IF ledgerFile.garbage
         THEN /\ Exit(PanicCode, {"split_once"})
              /\ UNCHANGED times
         ELSE /\ times' = loaded_map(ledgerFile)
              /\ pc' = "scan"
              /\ UNCHANGED <<exitCode, failures, quiet>>
    /\ priorFile' = IF pc' = "scan" /\ failures' = failures
                    THEN ledgerFile.entries ELSE {}
    /\ UNCHANGED <<env, files, path>>
    /\ UNCHANGED <<scanned, class, invoked, keysUsed, updated, ev, upd,
                   touched, conv, saved, deletes>>
    /\ loaded' = TRUE
    /\ UNCHANGED <<outDirs, outFiles, calls, procs, atStart, writes, raced>>
    /\ UNCHANGED pure

\* main.rs lines 176-202: find_tex returns the .tex files under src_dir, the
\* symlinked directory followed like any other
find_tex ==
    /\ pc = "scan"
    /\ files' = find_tex_in(src_dir, Disk)
    /\ scanned' = {files'[i] : i \in 1..Len(files')}
    /\ pc' = "next"
    /\ UNCHANGED <<env, exitCode, times, path>>
    /\ UNCHANGED <<class, invoked, failures, keysUsed, updated, ev, upd,
                   touched, conv, quiet, priorFile, saved, deletes>>
    /\ UNCHANGED <<outDirs, outFiles, calls, procs, atStart, writes, loaded, raced>>
    /\ UNCHANGED pure

\* the staleness test the specification describes: whole seconds compared
is_stale_seconds(m, s) == timestamp(m) > parse_from_str(s)

\* main.rs lines 70-81: the staleness test.  The modification time keeps
\* its sub-second part; the recorded time is a whole number of seconds
is_stale(m, s) == m > parse_from_str(s) * TicksPerSec

\* a loop that is left after its first pass, whatever remains
left_early(rest) == TRUE

\* main.rs lines 53 and 172: the for loop ends when no file remains
loop_done(rest) == rest = <<>>

\* main.rs lines 53-69: the for loop takes the next file and skips it when
\* it no longer exists; after the last file, main goes on to save_times
ForFile ==
    /\ pc = "next"
    /\ IF loop_done(files)
       THEN /\ pc' = "save"
            /\ path' = NoPath
            /\ UNCHANGED <<files, class, failures>>
       ELSE /\ files' = Tail(files)
            /\ path' = Head(files)
            /\ IF Head(files) \in present
               THEN /\ pc' = "check"
                    /\ UNCHANGED <<class, failures>>
               ELSE /\ pc' = "next"
                    /\ class' = [class EXCEPT ![Head(files)] = "missing"]
                    /\ failures' = failures \cup {"vanished"}
    /\ ev' = NoEval
    /\ upd' = NoUpdate
    /\ UNCHANGED <<env, exitCode, times>>
    /\ UNCHANGED <<scanned, invoked, keysUsed, updated, touched, conv,
                   quiet, priorFile, saved, deletes>>
    /\ UNCHANGED <<outDirs, outFiles, calls, procs, atStart, writes, loaded, raced>>
    /\ UNCHANGED pure

\* main.rs lines 70-81: read the modification time and the ledger entry of
\* the canonical path, and compare; each unwrap panics on failure
CheckStale ==
    /\ pc = "check"
    /\ LET k == ledger_key(path)
           f == canonicalize(path)
           s == get_or_zero(times, k)
       IN \E meta \in BOOLEAN :
            IF ~(meta /\ path \in present)
            THEN /\ Exit(PanicCode, {"metadata"})
                 /\ UNCHANGED <<class, keysUsed, ev>>
            ELSE IF ~parse_ok(s)
            THEN /\ Exit(PanicCode, {"parse_from_str"})
                 /\ keysUsed' = keysUsed \cup {k}
                 /\ UNCHANGED <<class, ev>>
            ELSE /\ keysUsed' = keysUsed \cup {k}
                 /\ ev' = [key |-> k, had |-> k \in Keys(times),
                           rec |-> parse_from_str(s), m |-> mtime[f],
                           touched |-> touched[f], conv |-> conv[f],
                           raced |-> raced[f] = "prev",
                           stale |-> is_stale(mtime[f], s)]
                 /\ class' = [class EXCEPT
                                ![path] = IF is_stale(mtime[f], s)
                                          THEN "stale" ELSE "fresh"]
                 /\ pc' = IF is_stale(mtime[f], s) THEN "spawn" ELSE "insert"
                 /\ UNCHANGED <<exitCode, failures, quiet>>
    /\ UNCHANGED <<env, times, files, path>>
    /\ UNCHANGED <<scanned, invoked, updated, upd, touched, conv,
                   priorFile, saved, deletes>>
    /\ UNCHANGED <<outDirs, outFiles, calls, procs, atStart, writes, loaded, raced>>
    /\ UNCHANGED pure

\* main.rs lines 96-133: create the output directory and spawn pandoc; both
\* results are unwrapped
SpawnPandoc ==
    /\ pc = "spawn"
    /\ \E result \in {"spawned", "create_dir_all", "spawn"} :
         IF result = "spawned"
         THEN /\ pc' = "wait"
              /\ invoked' = invoked + 1
              /\ conv' = [conv EXCEPT ![canonicalize(path)] = "running"]
              /\ outDirs' = outDirs \cup {output_parent(path)}
              /\ calls' = Append(calls, [path |-> path,
                                         input |-> to_str(path),
                                         output |-> output_arg(path),
                                         status |-> NoExit])
              /\ procs' = procs \cup {path}
              /\ raced' = [raced EXCEPT ![canonicalize(path)] = "no"]
              /\ UNCHANGED <<exitCode, failures, quiet>>
         ELSE /\ Exit(PanicCode, {result})
              /\ outDirs' = IF result = "spawn"
                            THEN outDirs \cup {output_parent(path)}
                            ELSE outDirs
              /\ UNCHANGED <<invoked, conv, calls, procs, raced>>
    /\ UNCHANGED <<env, times, files, path>>
    /\ UNCHANGED <<scanned, class, keysUsed, updated, ev, upd, touched,
                   priorFile, saved, deletes>>
    /\ UNCHANGED <<outFiles, atStart, writes, loaded>>
    /\ UNCHANGED pure

\* a wait that returns while the subprocess is still running
not_waited(running, p) == running

\* main.rs line 134: cmd.wait() returns when the subprocess has terminated
waited(running, p) == running \ {p}

\* main.rs line 134: wait for pandoc; its exit status is not looked at
WaitPandoc ==
    /\ pc = "wait"
    /\ \E status \in {0, 1} :
         /\ conv' = [conv EXCEPT ![canonicalize(path)] =
                        IF status = 0 /\ @ = "running" THEN "ok" ELSE "no"]
         /\ failures' = failures \cup (IF status = 0 THEN {} ELSE {"nonzero"})
         /\ outFiles' = IF status = 0
                        THEN outFiles \cup {output_arg(path)}
                        ELSE outFiles
         /\ calls' = [calls EXCEPT ![Len(calls)].status = status]
    /\ procs' = waited(procs, path)
    /\ pc' = "insert"
    /\ UNCHANGED <<env, exitCode, times, files, path>>
    /\ UNCHANGED <<scanned, class, invoked, keysUsed, updated, ev, upd,
                   touched, quiet, priorFile, saved, deletes>>
    /\ UNCHANGED <<outDirs, atStart, writes, loaded, raced>>
    /\ UNCHANGED pure

\* main.rs lines 165-169: times.insert(canonical path, now in seconds)
InsertTime ==
    /\ pc = "insert"
    /\ IF path \in present
       THEN /\ clock' \in clock..MaxClock
            /\ times' = inserted(times, path, clock')
            /\ keysUsed' = keysUsed \cup {ledger_key(path)}
            /\ updated' = updated \cup {path}
            /\ upd' = [key |-> ledger_key(path), now |-> clock',
                       before |-> times]
            /\ touched' = [touched EXCEPT ![canonicalize(path)] = FALSE]
            /\ raced' = [raced EXCEPT ![canonicalize(path)] =
                              IF /\ ev.stale
                                 /\ calls[Len(calls)].status = 0
                                 /\ conv[canonicalize(path)] # "ok"
                              THEN "now" ELSE @]
            /\ pc' = "next"
            /\ UNCHANGED <<exitCode, failures, quiet>>
       ELSE /\ Exit(PanicCode, {"canonicalize"})
            /\ UNCHANGED <<clock, times, keysUsed, updated, upd, touched,
                           raced>>
    /\ UNCHANGED <<mtime, present, htmlExists, ledgerFile, files, path>>
    /\ UNCHANGED <<scanned, class, invoked, ev, conv, priorFile, saved,
                   deletes>>
    /\ UNCHANGED <<outDirs, outFiles, calls, procs, atStart, writes, loaded>>
    /\ UNCHANGED pure

\* main.rs lines 173 and 229-241: save_times.  File::create is unwrapped;
\* a failed writeln! is reported and the line is lost
save_times ==
    /\ pc = "save"
    /\ \E created \in BOOLEAN :
         IF created
         THEN \E written \in SUBSET times :
                /\ ledgerFile' = [exists |-> TRUE, garbage |-> FALSE,
                                  entries |-> written]
                /\ saved' = TRUE
                /\ writes' = writes + 1
                /\ Exit(0, IF written = times THEN {} ELSE {"writeln"})
         ELSE /\ Exit(PanicCode, {"File::create"})
              /\ UNCHANGED <<ledgerFile, saved, writes>>
    /\ UNCHANGED <<clock, mtime, present, htmlExists, times, files, path>>
    /\ UNCHANGED <<scanned, class, invoked, keysUsed, updated, ev, upd,
                   touched, conv, priorFile, deletes>>
    /\ UNCHANGED <<outDirs, outFiles, calls, procs, atStart, loaded, raced>>
    /\ UNCHANGED pure

Next ==
    \/ \E f \in PhysFiles : Touch(f)
    \/ \E p \in Paths : Delete(p)
    \/ Start
    \/ WhichPandoc
    \/ CreateHtmlDir
    \/ get_times
    \/ find_tex
    \/ ForFile
    \/ CheckStale
    \/ SpawnPandoc
    \/ WaitPandoc
    \/ InsertTime
    \/ save_times

Spec == Init /\ [][Next]_vars

\* ------------------------------------------------------------- properties
Completed == pc = "exited" /\ exitCode = 0
Evaluated == ev # NoEval

\* C1: when two runs in succession complete without any failure and no file
\* changed since before the first of them started, the second run classifies
\* every scanned file "no changes" and never invokes the converter.
C1_NoOpRunIdempotent ==
    (Completed /\ quiet >= 2) =>
        /\ \A p \in scanned : class[p] = "fresh"
        /\ invoked = 0

\* C2: a file is classified "no changes" only if its last conversion
\* succeeded and it was not modified since that conversion started (stated
\* for files dated after the epoch; files dated at or before it are C3).
C2_SkipOnlyAfterSuccess ==
    (Evaluated /\ ev.m > 0 /\ ~ev.stale) => ev.conv = "ok"

\* C3: a file whose canonical path has no ledger entry is classified stale,
\* whatever its modification time.
C3_NoEntryIsStale ==
    (Evaluated /\ ~ev.had) => ev.stale

C5_TouchedIsStale ==
    (Evaluated /\ ev.touched) => ev.stale

\* C6: every key this run looked up or inserted is a canonical path, the
\* lookup and the insertion of a file use the same key, and the entries
\* inserted for one physical file, under whatever spelling, are one entry.
C6_CanonicalKeys ==
    /\ \A k \in keysUsed : canonicalize(k) = k
    /\ Evaluated => ev.key = canonicalize(path)
    /\ upd # NoUpdate => upd.key = canonicalize(path)
    /\ \A p \in updated :
         Cardinality({e \in times : canonicalize(e[1]) = canonicalize(p)}) = 1

\* the file was reached under both spellings and has a single entry
C6_Witness ==
    /\ {PathB, PathL} \subseteq updated
    /\ Cardinality({e \in times : canonicalize(e[1]) = PathB}) = 1
    /\ Cardinality(times) = 2

\* the paths of this run the for loop found on disk, and those it found gone
FoundOnDisk == {p \in scanned : class[p] \in {"stale", "fresh"}}
FoundGone == {p \in scanned : class[p] = "missing"}

\* C7: the ledger update sets the entry of the canonical path to the second
\* of the clock reading of that step and changes no other entry; the step
\* that finds a file gone leaves the ledger as it is; and in a completed run
\* the entry was set for exactly the files found on disk, stale or fresh,
\* converted successfully or not.
C7_LedgerUpdate ==
    [][ /\ (pc = "insert" /\ pc' = "next") =>
             times' = insert(times, canonicalize(path),
                             to_string(clock' \div TicksPerSec))
        /\ (pc = "next" /\ pc' = "next") => times' = times
        /\ Completed' => (updated' = FoundOnDisk' /\
                          FoundOnDisk' \cup FoundGone' = scanned') ]_vars

\* a completed run with a failed conversion, a fresh file and a vanished one
C7_Witness ==
    /\ Completed
    /\ "nonzero" \in failures
    /\ \E p \in updated : class[p] = "fresh"
    /\ \E p \in updated : class[p] = "stale"
    /\ FoundGone # {}

\* the canonical paths this run visited
VisitedKeys == {canonicalize(p) : p \in scanned}

\* C8 as claimed: after a completed run (here one without any failure) the
\* ledger file holds entries for files visited in that run only.
C8_OnlyVisited ==
    (Completed /\ failures = {}) =>
        \A e \in ledgerFile.entries : e[1] \in VisitedKeys

\* C8 as amended: the ledger file written by a completed run, when every line
\* was written, holds the whole in-memory ledger: every entry that was loaded
\* from the prior file and whose path was not updated in the run is still in
\* it, unchanged; nothing is dropped for not having been visited.
C8_PriorRetained ==
    (Completed /\ "writeln" \notin failures) =>
        /\ ledgerFile.entries = times
        /\ \A e \in priorFile :
             e[1] \notin {canonicalize(p) : p \in updated} =>
                 e \in ledgerFile.entries

\* a completed run whose ledger file keeps the entry of a file not visited
C8_Witness ==
    /\ Completed /\ "writeln" \notin failures
    /\ \E e \in priorFile : e[1] \notin VisitedKeys /\ e \in ledgerFile.entries

\* C9: when the only failures of a run are conversion failures (pandoc
\* exiting non-zero, or failing to spawn), the run does not abort: every
\* scanned file is still evaluated and the ledger is saved.
C9_ConversionFailureDoesNotAbort ==
    (pc = "exited" /\ failures # {} /\ failures \subseteq {"nonzero", "spawn"}) =>
        /\ saved
        /\ \A p \in scanned : class[p] # "none"

\* the failures that end the process at startup
StartupFailures == {"which", "create_dir"}

\* the failures of loading the ledger file
LoadFailures == {"read", "split_once"}

\* C10: the exit code is 1 exactly when pandoc was not found or the html
\* directory could not be created, and 0 in every other case, whatever
\* failed for a file or at the save (stated for runs that loaded the ledger
\* without failure).
C10_ExitCodes ==
    (pc = "exited" /\ failures \cap LoadFailures = {}) =>
        exitCode = (IF failures \cap StartupFailures # {} THEN 1 ELSE 0)

\* the file name without its ".tex"
Stem(name) == SubSeq(Chars[name], 1, Len(Chars[name]) - 4)

\* R/html/p/name.html for the scanned path R/p/name.tex
Mirror(p) ==
    to_str(src_dir) \o <<"/">> \o Chars["html"]
        \o to_str(SubSeq(p, Len(src_dir) + 1, Len(p) - 1))
        \o <<"/">> \o Stem(p[Len(p)]) \o HtmlExt

\* C11: every converter invocation is for a scanned file R/p/name.tex and is
\* given the output path R/html/p/name.html, the relative directories kept
\* and only the final extension replaced, and the parent directory of that
\* output path has been made to exist before the invocation.
C11_TreeMirrored ==
    \A i \in 1..Len(calls) :
        /\ calls[i].path \in scanned
        /\ calls[i].input = to_str(calls[i].path)
        /\ calls[i].output = Mirror(calls[i].path)
        /\ \E d \in outDirs : to_str(d) = rsplit_once(calls[i].output, "/")[1]

\* the converter invoked for the file below the dotted directory
C11_Witness ==
    /\ pc = "wait"
    /\ path = PathL
    /\ calls[Len(calls)].output =
         <<"/", "w", "/", "h", "t", "m", "l", "/", "l", ".", "1", "/",
           "b", ".", "c", ".", "h", "t", "m", "l">>
    /\ \E i \in 1..Len(calls) : calls[i].path = PathA

\* how many times this run invoked the converter for path p
Invocations(p) == Cardinality({i \in 1..Len(calls) : calls[i].path = p})

\* in a run completed without failure: one invocation per file classified
\* stale, with the file and its mirrored path, and none per fresh file
OncePerStaleFile ==
    (Completed /\ failures = {}) =>
        /\ \A p \in scanned :
             Invocations(p) = (IF class[p] = "stale" THEN 1 ELSE 0)
        /\ \A i \in 1..Len(calls) :
             /\ calls[i].input = to_str(calls[i].path)
             /\ calls[i].output = Mirror(calls[i].path)

\* a root holding one file, and no ledger file when the run began
OneNewFile == Cardinality(scanned) = 1 /\ ~atStart.ledger.exists

\* C13: in a run completed without failure the converter is invoked exactly
\* once for each scanned file classified stale, with that file as input and
\* its mirrored path as output, and never for a fresh file; and for a root
\* holding one new file and no prior ledger it is invoked exactly once and
\* the saved ledger holds exactly one entry, keyed by the file's canonical
\* path, with a second read from the clock during the run.
C13_InvokedOncePerStaleFile ==
    /\ OncePerStaleFile
    /\ (Completed /\ failures = {} /\ OneNewFile) =>
          /\ invoked = 1
          /\ \E p \in scanned : \E t \in Clock0..clock :
               ledgerFile.entries =
                   {<<canonicalize(p), to_string(timestamp(t))>>}

\* C14: when the modification time of a file cannot be read, the error is
\* that file's only: every other scanned file is still processed and the
\* ledger is saved at the end of the run.
C14_UnreadableTimeIsLocal ==
    (pc = "exited" /\ "metadata" \in failures) =>
        /\ saved
        /\ \A p \in scanned \ {path} : class[p] # "none"

\* the scanned files have all been processed: found gone, or classified and
\* their ledger entry set
AllProcessed ==
    /\ files = <<>>
    /\ \A p \in scanned :
         \/ class[p] = "missing"
         \/ class[p] \in {"stale", "fresh"} /\ p \in updated

\* C15: a run writes the ledger file at most once, and only after every
\* scanned file has been processed; as long as the run has not written it
\* (wherever the run is, or has stopped by a panic), the ledger file is what
\* it was when the run began; and the output of every conversion of the run
\* that completed is on disk.
C15_LedgerWrittenOnceAtEnd ==
    /\ writes <= 1
    /\ writes = 1 => AllProcessed
    /\ writes = 0 => ledgerFile = atStart.ledger
    /\ \A i \in 1..Len(calls) :
         calls[i].status = 0 => calls[i].output \in outFiles

\* a run that converted a file and then stopped by a panic before the save,
\* with a ledger file from an earlier run left as it was
C15_Witness ==
    /\ pc = "exited" /\ exitCode = PanicCode
    /\ writes = 0
    /\ atStart.ledger.exists /\ atStart.ledger.entries # {}
    /\ updated # {}
    /\ \E i \in 1..Len(calls) : calls[i].status = 0

\* C16: within a run the files are processed one at a time: at most one
\* converter subprocess is running, and only for the current file while main
\* waits for it; it has terminated when the file's ledger entry is updated;
\* and while a file is evaluated, converted or updated, every file classified
\* before it has had its ledger entry updated.
C16_OneAtATime ==
    /\ Cardinality(procs) <= 1
    /\ procs # {} => (pc = "wait" /\ procs = {path})
    /\ pc = "insert" => procs = {}
    /\ pc \in {"check", "spawn", "wait", "insert"} =>
         \A q \in scanned \ {path} :
             class[q] \in {"stale", "fresh"} => q \in updated

\* the converter running for a second file, the first one converted and
\* its ledger entry updated
C16_Witness ==
    /\ pc = "wait"
    /\ procs = {PathL}
    /\ PathB \in updated
    /\ Invocations(PathB) = 1

\* C17: a startup failure stops the run before anything else happens: the
\* process exits with code 1, the ledger has not been loaded, no file has
\* been scanned or converted, the ledger file is as it was; and when the
\* converter was not found the html directory has not been created.
C17_StartupFailureStopsAll ==
    failures \cap {"which", "create_dir"} # {} =>
        /\ pc = "exited" /\ exitCode = 1
        /\ ~loaded /\ times = {}
        /\ scanned = {} /\ class = [p \in Paths |-> "none"]
        /\ calls = <<>> /\ invoked = 0 /\ outDirs = {}
        /\ writes = 0 /\ ledgerFile = atStart.ledger
        /\ "which" \in failures => htmlExists = atStart.html

\* the converter is not found, in a root that has a ledger file and sources
\* but no html directory yet
C17_Witness ==
    /\ pc = "exited"
    /\ "which" \in failures
    /\ ~htmlExists
    /\ ledgerFile.exists
    /\ present # {}

\* C18: a ledger file with a line that has no delimiter makes the load fail
\* without aborting the run: the run still scans and processes the files and
\* saves the ledger; and when the ledger file is absent or unreadable the run
\* goes on from an empty mapping, every file being without an entry.
C18_MalformedLedgerTolerated ==
    /\ (pc = "exited" /\ "split_once" \in failures) =>
           (saved /\ AllProcessed)
    /\ (loaded /\ (~atStart.ledger.exists \/ "read" \in failures)) =>
           /\ pc # "load"
           /\ priorFile = {}
           /\ Keys(times) \subseteq {canonicalize(p) : p \in updated}

\* C20: a file modified by another process after its converter subprocess
\* was started and before its ledger entry was updated (the conversion
\* itself succeeding), and not converted or modified again since, is
\* classified stale when the next run evaluates it.
C20_NoLostModification ==
    (Evaluated /\ ev.raced) => ev.stale

\* ------------------------------------------------- find_tex on its own
\* the files of the tree, by canonical path
TreeFiles ==
    {<<"w", "a.tex">>, <<"w", "notes.txt">>, <<"w", "x.TEX">>, <<"w", ".tex">>,
     <<"w", "d", "b.c.tex">>, <<"w", "d", "e", "c.tex">>,
     <<"w", "t.tex", "k.tex">>}

\* a path below the link target can also be spelled through the link
Spellings(c) ==
    IF Len(c) >= Len(LinkTarget) /\ SubSeq(c, 1, Len(LinkTarget)) = LinkTarget
    THEN {c, LinkDir \o SubSeq(c, Len(LinkTarget) + 1, Len(c))}
    ELSE {c}

Parent(p) == SubSeq(p, 1, Len(p) - 1)

\* the file systems find_tex is applied to: any files, in any of the
\* directories that exist, the symlink present or not, and any of the
\* existing directories unreadable
TreeViews ==
    {[entries |->
        {p \in UNION {Spellings(c) : c \in X \cup D \cup {src_dir}} :
            link \/ \A i \in 1..Len(p) : SubSeq(p, 1, i) # LinkDir},
      unreadable |-> U] :
        <<X, D, link, U>> \in
          {t \in (SUBSET TreeFiles) \X (SUBSET (Dirs \ {src_dir}))
                   \X BOOLEAN \X (SUBSET Dirs) :
             /\ \A c \in t[1] \cup t[2] : Parent(c) \in t[2] \cup {src_dir}
             /\ t[4] \subseteq t[2] \cup {src_dir}}}

\* the program is not running while a function is looked at on its own
Idle ==
    /\ InitRun
    /\ mtime[PathA] = 0
    /\ ledgerFile = NoLedger

InitScan ==
    /\ Idle
    /\ stage = "tree"
    /\ fsys \in TreeViews
    /\ matches = <<>>
    /\ rtMap = {}
    /\ rtText = <<>>
    /\ rtBack = {}

ApplyFindTex ==
    /\ stage = "tree"
    /\ matches' = find_tex_in(src_dir, fsys)
    /\ stage' = "scanned"
    /\ UNCHANGED <<env, prog, obs, more, fsys, rtMap, rtText, rtBack>>

SpecScan == InitScan /\ [][ApplyFindTex]_vars

\* a name with a non-empty stem followed by ".tex"
EndsWithTex(name) ==
    LET s == Chars[name]
    IN Len(s) > 4 /\ SubSeq(s, Len(s) - 3, Len(s)) = <<".", "t", "e", "x">>

\* every directory on the way from the root to p exists and can be read
Reachable(p, fs) ==
    \A i \in 1..(Len(p) - 1) :
        /\ SubSeq(p, 1, i) \in fs.entries
        /\ canonicalize(SubSeq(p, 1, i)) \in Dirs \ fs.unreadable

\* the regular files with extension "tex" below the root, under every
\* spelling that leads to them through readable directories
TexFiles(fs) ==
    {p \in fs.entries :
        /\ canonicalize(p) \notin Dirs
        /\ EndsWithTex(p[Len(p)])
        /\ Reachable(p, fs)}

Range(q) == {q[i] : i \in 1..Len(q)}

split_once(s, c) ==
    LET at == Positions(s, c)
    IN IF at = {} THEN [found |-> FALSE, before |-> s, after |-> <<>>]
       ELSE [found |-> TRUE, before |-> SubSeq(s, 1, First(at) - 1),
             after |-> SubSeq(s, First(at) + 1, Len(s))]

\* str::lines: the text cut at each newline, no line for a final newline
RECURSIVE lines(_)
lines(text) ==
    IF text = <<>> THEN <<>>
    ELSE LET cut == split_once(text, "\n")
         IN <<cut.before>> \o lines(cut.after)

\* main.rs line 232: writeln!(saves_file, "{};{}", filename, time)
writeln(e) == e[1] \o <<";">> \o e[2] \o <<"\n">>

\* main.rs lines 231-240: the lines of the entries, in iteration order
RECURSIVE written_text(_)
written_text(order) ==
    IF order = <<>> THEN <<>>
    ELSE writeln(Head(order)) \o written_text(Tail(order))

\* main.rs lines 220-225: the map of a sequence of lines; a line without ';'
\* panics (ok is FALSE)
RECURSIVE map_of_lines(_, _)
map_of_lines(ls, map) ==
    IF ls = <<>> THEN [ok |-> TRUE, map |-> map]
    ELSE LET cut == split_once(Head(ls), ";")
         IN IF ~cut.found THEN [ok |-> FALSE, map |-> map]
            ELSE map_of_lines(Tail(ls), insert(map, cut.before, cut.after))

\* the paths whose ledger entries are saved and loaded: a plain one, one
\* with the delimiter in a file name, one with a newline in a file name
RtPaths == {PathA, <<"w", "a;b.tex">>, <<"w", "n\nb.tex">>}

\* the seconds recorded
RtSeconds == {0, 1, 12}

\* the ledgers main can hold for them
RtMaps ==
    {m \in SUBSET ({to_str(p) : p \in RtPaths}
                     \X {to_string(t) : t \in RtSeconds}) :
        \A e1, e2 \in m : e1[1] = e2[1] => e1 = e2}

\* the orders in which a HashMap can iterate over the entries of m
Orders(m) ==
    {o \in [1..Cardinality(m) -> m] : \A i, j \in 1..Cardinality(m) :
        o[i] = o[j] => i = j}

InitLedger ==
    /\ Idle
    /\ stage = "map"
    /\ rtMap \in RtMaps
    /\ rtText = <<>>
    /\ rtBack = [ok |-> TRUE, map |-> {}]
    /\ fsys = [entries |-> {}, unreadable |-> {}]
    /\ matches = <<>>

\* main.rs lines 229-241: save_times(dir, map), every line written
ApplySaveTimes ==
    /\ stage = "map"
    /\ \E o \in Orders(rtMap) : rtText' = written_text(o)
    /\ stage' = "saved"
    /\ UNCHANGED <<env, prog, obs, more, fsys, matches, rtMap, rtBack>>

\* main.rs lines 204-226: get_times(dir) of the file just written
ApplyGetTimes ==
    /\ stage = "saved"
    /\ rtBack' = map_of_lines(lines(rtText), {})
    /\ stage' = "loaded"
    /\ UNCHANGED <<env, prog, obs, more, fsys, matches, rtMap, rtText>>

NextLedger == ApplySaveTimes \/ ApplyGetTimes

SpecLedger == InitLedger /\ [][NextLedger]_vars

\* C19: loading the file written by save_times(m) returns a mapping equal to
\* m, for every ledger m the orchestrator can produce, keys with ';' or a
\* newline included.
C19_LedgerRoundTrip ==
    stage = "loaded" => (rtBack.ok /\ rtBack.map = rtMap)

\* the same for ledgers whose keys hold neither ';' nor a newline
RoundTripPlainKeys ==
    (stage = "loaded" /\
     \A e \in rtMap : Positions(e[1], ";") \cup Positions(e[1], "\n") = {}) =>
        (rtBack.ok /\ rtBack.map = rtMap)

====
